---- MODULE Spec2Model ----
(***************************************************************************)
(* A model of manga-upscaler.py: the batch orchestrator (process_images,   *)
(* run_waifu2x), the archiver (zip_directory), the progress reporter       *)
(* (ProgressTracker) and the exit paths of main.                           *)
(*                                                                         *)
(* File names are strings; the file system is a set of names per           *)
(* directory.  What the operating system and the external tool decide      *)
(* (the outcome of one invocation, a failing archive write, a failing      *)
(* directory removal) is a nondeterministic choice of the step that asks.  *)
(***************************************************************************)
EXTENDS Integers, Sequences, FiniteSets, TLC

VARIABLES
    cfg,          \* main's flags: subdir, nested, zip_output, zip_nested
    tree,         \* the input root: its kind, its files, its subdirectories
    install,      \* BIN_DIR / MODELS_DIR as check_waifu2x_installed sees them
    out0,         \* the output root before the run
    earlier,      \* what the earlier runs of the same command left behind
    faults,       \* whether an archive write or a removal failed in this run
    prov,         \* download_waifu2x: its files in BIN_DIR and its locals
    out,          \* the output root now
    sibling,      \* the archive output_path.parent/<output>.zip
    pc,           \* position of main / process_images
    mode,         \* which branch of process_images runs
    raised,       \* the exception that reached main's handlers
    exitCode,     \* the process exit code
    progress,     \* the batch's ProgressTracker
    zprogress,    \* zip_directory's own ProgressTracker
    term,         \* what the trackers printed
    chapters,     \* chapters still to process, in order
    curDir,       \* directory run_waifu2x is working on ("" is the root)
    images,       \* images of curDir still to invoke, in order
    invoked,      \* the external invocations made so far, with their outcome
    zipQueue,     \* output directories still to archive, in order
    zjob,         \* the zip_directory call in progress
    zipCalls,     \* the directories zip_directory was called for
    zippedCount   \* zipped_count of process_images

vars == <<cfg, tree, install, out0, earlier, faults, prov, out, sibling, pc,
          mode, raised, exitCode, progress, zprogress, term, chapters, curDir,
          images, invoked, zipQueue, zjob, zipCalls, zippedCount>>

----------------------------------------------------------------------------
(* Bounds of the model *)

\* directory entries in the whole input tree
MaxFiles == 3
\* immediate subdirectories of the input root
MaxChapters == 2
\* total_items of a tracker in the tracker specification
MaxTotal == 3
\* print() calls after which the tracker specification stops calling finish
MaxNewlines == 4
\* times the same command is run again
MaxReruns == 1

(* Constants of the program *)

\* ProgressTracker.bar_length
BarLength == 50
\* _display truncates an item name longer than this
LabelMax == 40
\* what _display keeps of a truncated item name
LabelKeep == 37

----------------------------------------------------------------------------
(* Strings *)

Min(a, b) == IF a < b THEN a ELSE b

\* the characters of the model's names, in code point order
Alphabet == " ()./0123456789_abcdefghijklmnopqrstuvwxyz"

CharAt(s, i) == SubSeq(s, i, i)

\* the place of every character in that order
Codes ==
    [c \in {CharAt(Alphabet, i) : i \in 1..Len(Alphabet)} |->
        CHOOSE i \in 1..Len(Alphabet) : CharAt(Alphabet, i) = c]

CharCode(c) == Codes[c]

\* Python's str < str: the first differing character decides, a proper
\* prefix is smaller
StrLess(a, b) ==
    LET n == Min(Len(a), Len(b))
    IN \E i \in 1..(n + 1) :
          /\ \A j \in 1..(i - 1) : CharAt(a, j) = CharAt(b, j)
          /\ IF i <= n
             THEN /\ CharAt(a, i) # CharAt(b, i)
                  /\ CharCode(CharAt(a, i)) < CharCode(CharAt(b, i))
             ELSE Len(a) < Len(b)

\* sorted(...) of a set of distinct names
RECURSIVE Sorted(_)
Sorted(S) ==
    IF S = {} THEN <<>>
    ELSE LET m == CHOOSE x \in S : \A y \in S \ {x} : StrLess(x, y)
         IN <<m>> \o Sorted(S \ {m})

HasSuffix(s, suf) ==
    /\ Len(s) >= Len(suf)
    /\ SubSeq(s, Len(s) - Len(suf) + 1, Len(s)) = suf

\* the four glob patterns of run_waifu2x and process_images
ImagePatterns == {".png", ".jpg", ".jpeg", ".webp"}

IsImage(name) == \E suf \in ImagePatterns : HasSuffix(name, suf)

\* glob("*.png") + glob("*.jpg") + glob("*.jpeg") + glob("*.webp") of a
\* directory holding `files`
Glob(files) == {f \in files : IsImage(f)}

RECURSIVE SumOver(_, _)
SumOver(f, S) ==
    IF S = {} THEN 0
    ELSE LET x == CHOOSE y \in S : TRUE
         IN f[x] + SumOver(f, S \ {x})

----------------------------------------------------------------------------
(* ProgressTracker *)

NoTracker == [total |-> -1, current |-> -1]

EmptyTerm == [drawn |-> <<>>, newlines |-> 0]

\* the item name as _display prints it
Truncate(item) ==
    IF Len(item) > LabelMax THEN SubSeq(item, 1, LabelKeep) \o "..." ELSE item

\* ProgressTracker._display: the terminal after the tracker tr drew itself
Display(tr, t, item) ==
    IF tr.total = 0 THEN t
    ELSE [drawn |-> Append(t.drawn,
                      [filled |-> (BarLength * tr.current) \div tr.total,
                       current |-> tr.current,
                       total |-> tr.total,
                       label |-> Truncate(item)]),
          newlines |-> IF tr.current >= tr.total
                       THEN t.newlines + 1 ELSE t.newlines]

\* ProgressTracker.__init__
NewTracker(n) == [total |-> n, current |-> 0]

\* ProgressTracker.update: the tracker afterwards
Update(tr) == [tr EXCEPT !.current = tr.current + 1]

\* ProgressTracker.update: the terminal afterwards
UpdateTerm(tr, t, item) == Display(Update(tr), t, item)

\* ProgressTracker.finish: the tracker afterwards
Finish(tr) ==
    IF tr.current < tr.total THEN [tr EXCEPT !.current = tr.total] ELSE tr

\* mutant: finish redraws without looking at the counter
FinishTermAlways(tr, t) ==
    LET d == Display(Finish(tr), t, "")
    IN [d EXCEPT !.newlines = d.newlines + 1]

\* ProgressTracker.finish: the terminal afterwards
FinishTerm(tr, t) ==
    LET d == IF tr.current < tr.total THEN Display(Finish(tr), t, "") ELSE t
    IN [d EXCEPT !.newlines = d.newlines + 1]

----------------------------------------------------------------------------
(* The inputs of a run *)

LongPage == "page_0002_of_the_long_named_volume_raw_scan.jpeg"

\* the names a directory of the input tree may hold
Pool == {"p1.png", LongPage, "notes.txt"}

NoDirs == [d \in {} |-> {}]

ChapterNames(k) == {"ch" \o ToString(i) : i \in 1..k}

\* the chapter that may hold a directory of its own, and the files of that
\* directory as paths below the chapter
DeepChapter == "ch1"

DeepPool == {"extra/p1.png"}

Entries(t) ==
    Cardinality(t.root) + Cardinality(t.deep)
      + SumOver([c \in DOMAIN t.chapters |-> Cardinality(t.chapters[c])],
                DOMAIN t.chapters)

\* an input root that is a directory: files, immediate subdirectories with
\* their files, and files one level further down
DirTrees ==
    {t \in {[kind |-> "dir", root |-> r, chapters |-> c, deep |-> e] :
               r \in SUBSET Pool,
               c \in UNION {[ChapterNames(k) -> SUBSET Pool] :
                              k \in 0..MaxChapters},
               e \in SUBSET DeepPool} :
        /\ Entries(t) <= MaxFiles
        /\ t.deep # {} => DeepChapter \in DOMAIN t.chapters}

\* an input path that is a single file
FileTrees ==
    {[kind |-> "file", root |-> {f}, chapters |-> NoDirs, deep |-> {}] :
        f \in Pool}

\* an input path that does not exist
MissingTree ==
    [kind |-> "missing", root |-> {}, chapters |-> NoDirs, deep |-> {}]

Trees == DirTrees \cup FileTrees \cup {MissingTree}

\* --subdir (without -o), --nested, --zip, --zip-chapters
Configs == [subdir : BOOLEAN, nested : BOOLEAN, zip_output : BOOLEAN,
            zip_nested : BOOLEAN]

\* the output root lies outside the input root: -o elsewhere, or the default
\* <input>_upscaled beside the input
OutsideConfigs == {c \in Configs : ~c.subdir}

\* the name of the output root inside the input root with --subdir
SubdirName == "upscaled"

\* the input root as a scan finds it: with --subdir the output root, once it
\* is a directory, is one of the input root's subdirectories, and the files
\* directly inside it are that subdirectory's files
InputTree(t, c, o) ==
    IF c.subdir /\ t.kind = "dir" /\ o.root = "dir"
    THEN [t EXCEPT !.chapters = (SubdirName :> o.files) @@ t.chapters]
    ELSE t

InstallStates == [bin : BOOLEAN, models : {"missing", "empty", "ok"}]

\* the output root before the run: absent, a regular file, or a directory
\* that already holds a directory of its own
OutStates ==
    {[root |-> "absent", files |-> {}, dirs |-> NoDirs, zips |-> NoDirs],
     [root |-> "file", files |-> {}, dirs |-> NoDirs, zips |-> NoDirs],
     [root |-> "dir", files |-> {}, dirs |-> [d \in {"old"} |-> {"x.png"}],
      zips |-> NoDirs]}

\* the model directories a release archive may hold; the runs use the first
ModelDirs == {"models-cunet", "models-upconv"}

\* what a downloaded archive is: unreadable or not, with or without the
\* executable, and the models-* directories it holds
Archives == [corrupt : BOOLEAN, exe : BOOLEAN, models : SUBSET ModelDirs]

NoArchive == [corrupt |-> FALSE, exe |-> FALSE, models |-> {}]

\* download_waifu2x's files and locals: whether BIN_DIR/waifu2x.zip and
\* BIN_DIR/temp_extract exist, the archive fetched, the models-* directories
\* still to copy, models_copied, and whether the installed executable and
\* the installed models-cunet hold all of their content
NoProv == [zip |-> FALSE, temp |-> FALSE, archive |-> NoArchive, todo |-> {},
           copied |-> {}, binWhole |-> FALSE, cunetWhole |-> FALSE]

\* zip_directory's arguments and locals: the directory, the cleanup flag,
\* len(files_to_zip), the files still to write, whether the with block ended,
\* whether the removal was warned about, and the value returned
NoJob == [src |-> "", cleanup |-> FALSE, found |-> 0, todo |-> <<>>,
          written |-> FALSE, warned |-> FALSE, ret |-> "none"]

----------------------------------------------------------------------------
(* The file system *)

\* mutant: the check for an empty models directory is left out
CheckInstalledNoEmpty(i) == i.bin /\ i.models # "missing"

\* check_waifu2x_installed
CheckInstalled(i) == i.bin /\ i.models = "ok"

\* mutant: the patterns are matched at every depth below a chapter, as
\* rglob would
DirFilesRecursive(t, dir) ==
    IF t.kind # "dir" THEN {}
    ELSE IF dir = "" THEN t.root
    ELSE t.chapters[dir] \cup (IF dir = DeepChapter THEN t.deep ELSE {})

\* the entries glob("*.png") and its like can match: those directly inside
\* the input root, or directly inside chapter dir
DirFiles(t, dir) ==
    IF t.kind # "dir" THEN {}
    ELSE IF dir = "" THEN t.root ELSE t.chapters[dir]

\* Path.mkdir(parents=True, exist_ok=True) raises when the output root is a
\* regular file (FileExistsError for the root, NotADirectoryError below it)
MkdirFails(o) == o.root = "file"

\* the output tree after output_path.mkdir(parents=True, exist_ok=True)
Mkdir(o, dir) ==
    [o EXCEPT !.root = "dir",
              !.dirs = IF dir = "" \/ dir \in DOMAIN o.dirs THEN o.dirs
                       ELSE o.dirs @@ (dir :> {})]

\* the output tree after the external tool wrote out_file
WriteOutput(o, dir, name) ==
    IF dir = "" THEN [o EXCEPT !.files = o.files \cup {name}]
    ELSE [o EXCEPT !.dirs[dir] = o.dirs[dir] \cup {name}]

\* whether the directory src of the output tree exists ("" is the root)
SrcExists(o, src) ==
    IF src = "" THEN o.root = "dir" ELSE o.root = "dir" /\ src \in DOMAIN o.dirs

RECURSIVE Flatten(_, _)
Flatten(o, ds) ==
    IF ds = <<>> THEN <<>>
    ELSE Sorted(o.dirs[Head(ds)]) \o Flatten(o, Tail(ds))

\* [f for f in dir_path.rglob("*") if f.is_file()]: the names of the files
\* under src, in one of the orders the file system may give
FilesUnder(o, src) ==
    IF src = ""
    THEN Sorted(o.files \cup {d \o ".zip" : d \in DOMAIN o.zips})
           \o Flatten(o, Sorted(DOMAIN o.dirs))
    ELSE Sorted(o.dirs[src])

\* the state of the archive zip_directory writes for src
Archive(o, sib, src) ==
    IF src = "" THEN sib
    ELSE IF src \in DOMAIN o.zips THEN o.zips[src] ELSE "absent"

\* the output tree with the archive of src in state st
SetArchive(o, src, st) ==
    IF src = "" THEN o
    ELSE [o EXCEPT !.zips = (src :> st) @@ o.zips]

\* the output tree after a shutil.rmtree(src) that ran to its end
Rmtree(o, src) ==
    IF src = ""
    THEN [root |-> "absent", files |-> {}, dirs |-> NoDirs, zips |-> NoDirs]
    ELSE [o EXCEPT !.dirs = [d \in DOMAIN o.dirs \ {src} |-> o.dirs[d]]]

\* the output tree after a shutil.rmtree(src) that raised part-way: the
\* directory is still there, with the files `keep` of its own
RmtreePartial(o, src, keep) ==
    IF src = "" THEN [o EXCEPT !.files = keep]
    ELSE [o EXCEPT !.dirs[src] = keep]

\* the files directly inside the directory src of the output tree
OwnFiles(o, src) == IF src = "" THEN o.files ELSE o.dirs[src]

----------------------------------------------------------------------------
(* run_waifu2x: one invocation *)

\* how subprocess.run ended: exit code 0, another exit code,
\* TimeoutExpired, any other exception
Outcomes == {"ok", "failed", "timeout", "error"}

\* the reason tag of an outcome
Tag(outcome) ==
    CASE outcome = "ok" -> ""
      [] outcome = "failed" -> " (failed)"
      [] outcome = "timeout" -> " (timeout)"
      [] outcome = "error" -> " (error)"

\* the item name run_waifu2x hands to progress_tracker.update
Label(name, outcome) == name \o Tag(outcome)

\* mutant: the except Exception clause is missing
EscapesLaunchError(outcome) == outcome = "error"

\* whether an outcome leaves run_waifu2x as an exception: the try statement
\* handles TimeoutExpired and Exception, a non-zero exit raises nothing
Escapes(outcome) == FALSE

----------------------------------------------------------------------------
(* main and process_images *)

Init ==
    /\ cfg \in OutsideConfigs
    /\ tree \in Trees
    /\ install \in InstallStates
    /\ out0 \in OutStates
    /\ earlier = <<>>
    /\ faults = FALSE
    /\ prov = NoProv
    /\ out = out0
    /\ sibling = "absent"
    /\ pc = "check_input"
    /\ mode = "none"
    /\ raised = "none"
    /\ exitCode = -1
    /\ progress = NoTracker
    /\ zprogress = NoTracker
    /\ term = EmptyTerm
    /\ chapters = <<>>
    /\ curDir = ""
    /\ images = <<>>
    /\ invoked = <<>>
    /\ zipQueue = <<>>
    /\ zjob = NoJob
    /\ zipCalls = <<>>
    /\ zippedCount = 0

\* an exception leaves process_images: each handler of main ends in
\* sys.exit(1)
Raise(exc) ==
    /\ pc' = "done"
    /\ raised' = exc
    /\ exitCode' = 1

\* process_images returns and main runs off its end
Return ==
    /\ pc' = "done"
    /\ exitCode' = 0
    /\ UNCHANGED raised

\* if not input_path.exists(): raise FileNotFoundError
CheckInput ==
    /\ pc = "check_input"
    /\ IF tree.kind = "missing"
       THEN Raise("FileNotFoundError")
       ELSE pc' = "verify" /\ UNCHANGED <<raised, exitCode>>
    /\ UNCHANGED <<cfg, tree, install, out0, earlier, prov, faults, out,
                   sibling, mode, progress, zprogress, term, chapters, curDir,
                   images, invoked, zipQueue, zjob, zipCalls, zippedCount>>

\* verify_model_requirements(model_name)
VerifyRequirements ==
    /\ pc = "verify"
    /\ IF ~CheckInstalled(install)
       THEN Raise("ModelError")
       ELSE pc' = "select" /\ UNCHANGED <<raised, exitCode>>
    /\ UNCHANGED <<cfg, tree, install, out0, earlier, prov, faults, out,
                   sibling, mode, progress, zprogress, term, chapters, curDir,
                   images, invoked, zipQueue, zjob, zipCalls, zippedCount>>

\* the batch of the input root itself: the tracker is made from the glob
\* of the root, then run_waifu2x is called on the root
StartRootBatch(m) ==
    LET tr == NewTracker(Cardinality(Glob(DirFiles(tree, ""))))
    IN /\ progress' = tr
       /\ term' = Display(tr, term, "")
       /\ mode' = m
       /\ curDir' = ""
       /\ pc' = "run_enter"
       /\ UNCHANGED <<cfg, tree, install, out0, earlier, prov, faults, out,
                      sibling, raised, exitCode, zprogress, chapters, images,
                      invoked, zipQueue, zjob, zipCalls, zippedCount>>

\* nested is false
FlatBatch ==
    /\ pc = "select"
    /\ ~cfg.nested
    /\ StartRootBatch("flat")

\* nested is true and input_path.iterdir() raises: the input is a file
NestedScanFails ==
    /\ pc = "select"
    /\ cfg.nested
    /\ tree.kind = "file"
    /\ Raise("Exception")
    /\ UNCHANGED <<cfg, tree, install, out0, earlier, prov, faults, out,
                   sibling, mode, progress, zprogress, term, chapters, curDir,
                   images, invoked, zipQueue, zjob, zipCalls, zippedCount>>

\* mutant: the fallback makes its tracker and never calls run_waifu2x
FallbackSkipsBatch ==
    /\ pc = "select"
    /\ cfg.nested
    /\ tree.kind = "dir"
    /\ DOMAIN InputTree(tree, cfg, out).chapters = {}
    /\ progress' = NewTracker(Cardinality(Glob(DirFiles(tree, ""))))
    /\ term' = Display(progress', term, "")
    /\ mode' = "fallback"
    /\ pc' = "finish"
    /\ UNCHANGED <<cfg, tree, install, out0, earlier, prov, faults, out,
                   sibling, raised, exitCode, zprogress, chapters, curDir,
                   images, invoked, zipQueue, zjob, zipCalls, zippedCount>>

\* nested is true and there is no subdirectory
FallbackBatch ==
    /\ pc = "select"
    /\ cfg.nested
    /\ tree.kind = "dir"
    /\ DOMAIN InputTree(tree, cfg, out).chapters = {}
    /\ StartRootBatch("fallback")

\* mutant: every directory entry is counted, recognized or not
TotalEntries(t) ==
    SumOver([c \in DOMAIN t.chapters |-> Cardinality(t.chapters[c])],
            DOMAIN t.chapters)

\* total_images of the nested branch
TotalImages(t) ==
    SumOver([c \in DOMAIN t.chapters |-> Cardinality(Glob(t.chapters[c]))],
            DOMAIN t.chapters)

\* nested is true and there are subdirectories: count, then make the tracker
NestedBatch ==
    /\ pc = "select"
    /\ cfg.nested
    /\ tree.kind = "dir"
    /\ DOMAIN InputTree(tree, cfg, out).chapters # {}
    /\ LET tr == NewTracker(TotalImages(InputTree(tree, cfg, out)))
       IN /\ progress' = tr
          /\ term' = Display(tr, term, "")
    /\ mode' = "nested"
    /\ chapters' = Sorted(DOMAIN InputTree(tree, cfg, out).chapters)
    /\ pc' = "chapters"
    /\ UNCHANGED <<cfg, tree, install, out0, earlier, prov, faults, out,
                   sibling, raised, exitCode, zprogress, curDir, images,
                   invoked, zipQueue, zjob, zipCalls, zippedCount>>

\* for idx, subdir in enumerate(sorted(subdirs), 1)
NextChapter ==
    /\ pc = "chapters"
    /\ IF chapters # <<>>
       THEN /\ curDir' = Head(chapters)
            /\ chapters' = Tail(chapters)
            /\ pc' = "run_enter"
       ELSE /\ pc' = "finish"
            /\ UNCHANGED <<curDir, chapters>>
    /\ UNCHANGED <<cfg, tree, install, out0, earlier, prov, faults, out,
                   sibling, mode, raised, exitCode, progress, zprogress, term,
                   images, invoked, zipQueue, zjob, zipCalls, zippedCount>>

RECURSIVE Reverse(_)
Reverse(q) == IF q = <<>> THEN <<>> ELSE Append(Reverse(Tail(q)), Head(q))

\* mutant: the images are taken as glob gives them, here last name first
ImagesUnsorted(t, dir) ==
    IF t.kind = "file" THEN Sorted(t.root)
    ELSE Reverse(Sorted(Glob(DirFiles(t, dir))))

\* the images run_waifu2x works through for the directory dir
ImagesOf(t, dir) ==
    IF t.kind = "file" THEN Sorted(t.root) ELSE Sorted(Glob(DirFiles(t, dir)))

\* run_waifu2x up to its loop: mkdir, then the list of images
RunEnter ==
    /\ pc = "run_enter"
    /\ IF MkdirFails(out)
       THEN /\ Raise("Exception")
            /\ UNCHANGED <<out, images>>
       ELSE /\ out' = Mkdir(out, curDir)
            /\ images' = ImagesOf(InputTree(tree, cfg, out), curDir)
            /\ pc' = "run_loop"
            /\ UNCHANGED <<raised, exitCode>>
    /\ UNCHANGED <<cfg, tree, install, out0, earlier, prov, faults, sibling,
                   mode, progress, zprogress, term, chapters, curDir, invoked,
                   zipQueue, zjob, zipCalls, zippedCount>>

\* one pass of run_waifu2x's loop: the external tool runs on the next image
Invoke ==
    /\ pc = "run_loop"
    /\ images # <<>>
    /\ \E o \in Outcomes :
         LET name == Head(images)
         IN /\ invoked' = Append(invoked,
                            [dir |-> curDir, name |-> name, outcome |-> o])
            /\ out' = IF o = "ok" THEN WriteOutput(out, curDir, name) ELSE out
            /\ IF Escapes(o)
               THEN /\ Raise("Exception")
                    /\ UNCHANGED <<progress, term, images>>
               ELSE /\ progress' = Update(progress)
                    /\ term' = UpdateTerm(progress, term, Label(name, o))
                    /\ images' = Tail(images)
                    /\ UNCHANGED <<pc, raised, exitCode>>
    /\ UNCHANGED <<cfg, tree, install, out0, earlier, prov, faults, sibling,
                   mode, zprogress, chapters, curDir, zipQueue, zjob,
                   zipCalls, zippedCount>>

\* run_waifu2x returns: no image, or none left
RunReturn ==
    /\ pc = "run_loop"
    /\ images = <<>>
    /\ pc' = IF mode = "nested" THEN "chapters" ELSE "finish"
    /\ UNCHANGED <<cfg, tree, install, out0, earlier, prov, faults, out,
                   sibling, mode, raised, exitCode, progress, zprogress, term,
                   chapters, curDir, images, invoked, zipQueue, zjob,
                   zipCalls, zippedCount>>

\* a call zip_directory(src, ..., cleanup=c)
Job(src, c) == [NoJob EXCEPT !.src = src, !.cleanup = c]

\* whether process_images archives the whole output after the batch
ZipsOutput(m, c) == m = "flat" /\ c.zip_output

\* whether process_images archives the chapters after the batch
ZipsChapters(m, c) == m = "nested" /\ c.zip_nested

\* progress.finish(), then what follows the batch in its branch
FinishBatch ==
    /\ pc = "finish"
    /\ progress' = Finish(progress)
    /\ term' = FinishTerm(progress, term)
    /\ IF ZipsOutput(mode, cfg)
       THEN /\ zjob' = Job("", TRUE)
            /\ pc' = "zip_begin"
            /\ UNCHANGED <<raised, exitCode>>
       ELSE IF ZipsChapters(mode, cfg)
       THEN /\ pc' = "zip_scan"
            /\ UNCHANGED <<zjob, raised, exitCode>>
       ELSE /\ Return
            /\ UNCHANGED zjob
    /\ UNCHANGED <<cfg, tree, install, out0, earlier, prov, faults, out,
                   sibling, mode, zprogress, chapters, curDir, images,
                   invoked, zipQueue, zipCalls, zippedCount>>

----------------------------------------------------------------------------
(* zip_directory and its two call sites *)

\* mutant: the early return for an empty list is left out
NothingToZipNever(fs) == FALSE

\* if not files_to_zip
NothingToZip(fs) == fs = <<>>

\* mutant: the source is removed on the failure path as well
AfterWriteFailureCleans(o, src) == Rmtree(o, src)

\* the except clause of zip_directory touches nothing on disk
AfterWriteFailure(o, src) == o

\* zip_directory returns r
ZipReturns(r) ==
    /\ zjob' = [zjob EXCEPT !.ret = r]
    /\ pc' = "zip_ret"

\* for subdir in sorted(output_path.iterdir()): if subdir.is_dir(): the
\* loop goes to the directory at the head of q, or process_images returns
ZipLoop(q) ==
    IF q # <<>>
    THEN /\ zjob' = Job(Head(q), TRUE)
         /\ zipQueue' = Tail(q)
         /\ pc' = "zip_begin"
         /\ UNCHANGED <<raised, exitCode>>
    ELSE /\ Return
         /\ zipQueue' = q
         /\ UNCHANGED zjob

\* zipped_count = 0, sorted(output_path.iterdir()), and the loop's first
\* directory
ZipScan ==
    /\ pc = "zip_scan"
    /\ zippedCount' = 0
    /\ ZipLoop(Sorted(DOMAIN out.dirs))
    /\ UNCHANGED <<cfg, tree, install, out0, earlier, prov, faults, out,
                   sibling, mode, progress, zprogress, term, chapters, curDir,
                   images, invoked, zipCalls>>

\* zip_directory up to the opening of the archive: list the files, return
\* False when there is none, make the tracker, open the archive for writing
\* (which creates or truncates the file; the failures of the archive are
\* those of its writes)
ZipBegin ==
    /\ pc = "zip_begin"
    /\ zipCalls' = Append(zipCalls, zjob.src)
    /\ LET fs == FilesUnder(out, zjob.src)
       IN IF NothingToZip(fs)
          THEN /\ ZipReturns(FALSE)
               /\ UNCHANGED <<out, sibling, zprogress, term>>
          ELSE /\ zprogress' = NewTracker(Len(fs))
               /\ term' = Display(NewTracker(Len(fs)), term, "")
               /\ out' = SetArchive(out, zjob.src, "partial")
               /\ sibling' = IF zjob.src = "" THEN "partial" ELSE sibling
               /\ zjob' = [zjob EXCEPT !.todo = fs, !.found = Len(fs)]
               /\ pc' = "zip_write"
    /\ UNCHANGED <<cfg, tree, install, out0, earlier, prov, faults, mode,
                   raised, exitCode, progress, chapters, curDir, images,
                   invoked, zipQueue, zippedCount>>

\* zipf.write(file_path, arcname) for the next file: it is written and the
\* tracker advances, or the write raises and zip_directory returns False
ZipWrite ==
    /\ pc = "zip_write"
    /\ zjob.todo # <<>>
    /\ \E ok \in BOOLEAN :
         IF ok
         THEN /\ zjob' = [zjob EXCEPT !.todo = Tail(zjob.todo)]
              /\ zprogress' = Update(zprogress)
              /\ term' = UpdateTerm(zprogress, term, Head(zjob.todo))
              /\ UNCHANGED <<pc, out, faults>>
         ELSE /\ ZipReturns(FALSE)
              /\ out' = AfterWriteFailure(out, zjob.src)
              /\ faults' = TRUE
              /\ UNCHANGED <<zprogress, term>>
    /\ UNCHANGED <<cfg, tree, install, out0, earlier, prov, sibling, mode,
                   raised, exitCode, progress, chapters, curDir, images,
                   invoked, zipQueue, zipCalls, zippedCount>>

\* the with block ends: the archive is complete; progress.finish()
ZipClose ==
    /\ pc = "zip_write"
    /\ zjob.todo = <<>>
    /\ out' = SetArchive(out, zjob.src, "complete")
    /\ sibling' = IF zjob.src = "" THEN "complete" ELSE sibling
    /\ zprogress' = Finish(zprogress)
    /\ term' = FinishTerm(zprogress, term)
    /\ IF zjob.cleanup
       THEN /\ zjob' = [zjob EXCEPT !.written = TRUE]
            /\ pc' = "zip_cleanup"
       ELSE /\ zjob' = [zjob EXCEPT !.written = TRUE, !.ret = TRUE]
            /\ pc' = "zip_ret"
    /\ UNCHANGED <<cfg, tree, install, out0, earlier, prov, faults, mode,
                   raised, exitCode, progress, chapters, curDir, images,
                   invoked, zipQueue, zipCalls, zippedCount>>

\* if cleanup: shutil.rmtree(dir_path) runs to its end, or raises part-way
\* and is only warned about; zip_directory returns True either way
ZipCleanup ==
    /\ pc = "zip_cleanup"
    /\ \E removed \in BOOLEAN, keep \in {{}, OwnFiles(out, zjob.src)} :
         IF removed
         THEN /\ keep = {}
              /\ out' = Rmtree(out, zjob.src)
              /\ zjob' = [zjob EXCEPT !.ret = TRUE]
              /\ UNCHANGED faults
         ELSE /\ out' = RmtreePartial(out, zjob.src, keep)
              /\ zjob' = [zjob EXCEPT !.ret = TRUE, !.warned = TRUE]
              /\ faults' = TRUE
    /\ pc' = "zip_ret"
    /\ UNCHANGED <<cfg, tree, install, out0, earlier, prov, sibling, mode,
                   raised, exitCode, progress, zprogress, term, chapters,
                   curDir, images, invoked, zipQueue, zipCalls, zippedCount>>

\* the caller takes zip_directory's result: the chapter loop counts it and
\* goes on, the flat branch returns
ZipReturn ==
    /\ pc = "zip_ret"
    /\ IF mode = "nested"
       THEN /\ zippedCount' = IF zjob.ret = TRUE THEN zippedCount + 1
                              ELSE zippedCount
            /\ ZipLoop(zipQueue)
       ELSE /\ Return
            /\ UNCHANGED <<zippedCount, zipQueue, zjob>>
    /\ UNCHANGED <<cfg, tree, install, out0, earlier, prov, faults, out,
                   sibling, mode, progress, zprogress, term, chapters, curDir,
                   images, invoked, zipCalls>>

----------------------------------------------------------------------------
(* One run of main *)

Next ==
    \/ CheckInput
    \/ VerifyRequirements
    \/ FlatBatch
    \/ NestedScanFails
    \/ FallbackBatch
    \/ NestedBatch
    \/ NextChapter
    \/ RunEnter
    \/ Invoke
    \/ RunReturn
    \/ FinishBatch
    \/ ZipScan
    \/ ZipBegin
    \/ ZipWrite
    \/ ZipClose
    \/ ZipCleanup
    \/ ZipReturn

Spec == Init /\ [][Next]_vars

----------------------------------------------------------------------------
(* The same command run again: a new process over the file system the      *)
(* earlier run left                                                        *)

\* the tool succeeded for every image of this run, and no archive write and
\* no directory removal failed
CleanRun ==
    /\ ~faults
    /\ \A i \in 1..Len(invoked) : invoked[i].outcome = "ok"

\* what a finished run leaves behind
Left ==
    [out |-> out, sibling |-> sibling, exitCode |-> exitCode,
     clean |-> CleanRun]

\* the first run starts with the dependencies installed and no output root
RerunInit ==
    /\ cfg \in Configs
    /\ tree \in Trees
    /\ install = [bin |-> TRUE, models |-> "ok"]
    /\ out0 = [root |-> "absent", files |-> {}, dirs |-> NoDirs,
               zips |-> NoDirs]
    /\ earlier = <<>>
    /\ faults = FALSE
    /\ prov = NoProv
    /\ out = out0
    /\ sibling = "absent"
    /\ pc = "check_input"
    /\ mode = "none"
    /\ raised = "none"
    /\ exitCode = -1
    /\ progress = NoTracker
    /\ zprogress = NoTracker
    /\ term = EmptyTerm
    /\ chapters = <<>>
    /\ curDir = ""
    /\ images = <<>>
    /\ invoked = <<>>
    /\ zipQueue = <<>>
    /\ zjob = NoJob
    /\ zipCalls = <<>>
    /\ zippedCount = 0

\* main is started again with the same arguments: the input tree, the
\* installation and whatever the run before left of the output are on disk,
\* everything else starts afresh
Rerun ==
    /\ pc = "done"
    /\ Len(earlier) < MaxReruns
    /\ earlier' = Append(earlier, Left)
    /\ out0' = out
    /\ faults' = FALSE
    /\ pc' = "check_input"
    /\ mode' = "none"
    /\ raised' = "none"
    /\ exitCode' = -1
    /\ progress' = NoTracker
    /\ zprogress' = NoTracker
    /\ term' = EmptyTerm
    /\ chapters' = <<>>
    /\ curDir' = ""
    /\ images' = <<>>
    /\ invoked' = <<>>
    /\ zipQueue' = <<>>
    /\ zjob' = NoJob
    /\ zipCalls' = <<>>
    /\ zippedCount' = 0
    /\ UNCHANGED <<cfg, tree, install, prov, out, sibling>>

NextRerun == Next \/ Rerun

SpecRerun == RerunInit /\ [][NextRerun]_vars

----------------------------------------------------------------------------
(* main --download waifu2x: download_waifu2x                               *)

\* what belongs to a run and not to the installation
runVars == <<cfg, tree, out0, earlier, faults, out, sibling, mode, progress,
             zprogress, term, chapters, curDir, images, invoked, zipQueue,
             zjob, zipCalls, zippedCount>>

\* BIN_DIR and MODELS_DIR before the action: nothing, an earlier install or
\* parts of one, with or without the leftovers of an interrupted action
ProvisionInit ==
    /\ cfg = [subdir |-> FALSE, nested |-> FALSE, zip_output |-> FALSE,
              zip_nested |-> FALSE]
    /\ tree = MissingTree
    /\ install \in InstallStates
    /\ out0 = [root |-> "absent", files |-> {}, dirs |-> NoDirs,
               zips |-> NoDirs]
    /\ earlier = <<>>
    /\ faults = FALSE
    /\ \E z, t \in BOOLEAN :
         prov = [NoProv EXCEPT !.zip = z, !.temp = t,
                               !.binWhole = install.bin,
                               !.cunetWhole = (install.models = "ok")]
    /\ out = out0
    /\ sibling = "absent"
    /\ pc = "dl_fetch"
    /\ mode = "none"
    /\ raised = "none"
    /\ exitCode = -1
    /\ progress = NoTracker
    /\ zprogress = NoTracker
    /\ term = EmptyTerm
    /\ chapters = <<>>
    /\ curDir = ""
    /\ images = <<>>
    /\ invoked = <<>>
    /\ zipQueue = <<>>
    /\ zjob = NoJob
    /\ zipCalls = <<>>
    /\ zippedCount = 0

\* the except clause of the extraction: shutil.rmtree(temp_dir,
\* ignore_errors=True), which removes the directory or silently does not,
\* zip_path.unlink(), raise ModelError; main exits with 1
ExtractionFails(p) ==
    /\ \E gone \in BOOLEAN :
         prov' = [p EXCEPT !.temp = p.temp /\ ~gone, !.zip = FALSE]
    /\ Raise("ModelError")

\* a stale archive is unlinked, then urlretrieve: the archive is there, or
\* the download fails, what was written of it is unlinked and ModelError
\* is raised
Fetch ==
    /\ pc = "dl_fetch"
    /\ \E a \in Archives :
         \/ /\ prov' = [prov EXCEPT !.zip = TRUE, !.archive = a]
            /\ pc' = "dl_extract"
            /\ UNCHANGED <<raised, exitCode>>
         \/ /\ a = NoArchive
            /\ prov' = [prov EXCEPT !.zip = FALSE]
            /\ Raise("ModelError")
    /\ UNCHANGED install
    /\ UNCHANGED runVars

\* a stale temp_extract is removed, temp_dir.mkdir, extractall: a corrupt
\* archive raises
Extract ==
    /\ pc = "dl_extract"
    /\ IF prov.archive.corrupt
       THEN ExtractionFails([prov EXCEPT !.temp = TRUE])
       ELSE /\ prov' = [prov EXCEPT !.temp = TRUE]
            /\ pc' = "dl_exe"
            /\ UNCHANGED <<raised, exitCode>>
    /\ UNCHANGED install
    /\ UNCHANGED runVars

\* how a copy ends: all of it, a part of it, nothing of it
CopyResults == {"copied", "partial", "none"}

\* the executable is looked for; the installed one is unlinked and
\* shutil.copy2 puts the new one in its place, or raises with the
\* destination missing or cut short
InstallExe ==
    /\ pc = "dl_exe"
    /\ IF ~prov.archive.exe
       THEN /\ ExtractionFails(prov)
            /\ UNCHANGED install
       ELSE \E r \in CopyResults :
              /\ install' = [install EXCEPT !.bin = (r # "none")]
              /\ IF r = "copied"
                 THEN /\ prov' = [prov EXCEPT !.binWhole = TRUE,
                                              !.todo = prov.archive.models]
                      /\ pc' = "dl_models"
                      /\ UNCHANGED <<raised, exitCode>>
                 ELSE ExtractionFails([prov EXCEPT !.binWhole = FALSE])
    /\ UNCHANGED runVars

\* MODELS_DIR/waifu2x/models-cunet after a copytree of it that ended as r:
\* copytree makes the directory, copies what it can and raises at its end
\* if a file could not be copied
CunetAfter(r) == IF r = "none" THEN "empty" ELSE "ok"

\* one pass of the loop over the models-* directories of the archive: the
\* installed directory is removed and shutil.copytree copies the new one,
\* or raises
InstallModel ==
    /\ pc = "dl_models"
    /\ prov.todo # {}
    /\ \E m \in prov.todo, r \in CopyResults :
         LET isCunet == m = "models-cunet"
             p == IF isCunet
                  THEN [prov EXCEPT !.cunetWhole = (r = "copied")]
                  ELSE prov
         IN /\ install' = IF isCunet
                          THEN [install EXCEPT !.models = CunetAfter(r)]
                          ELSE install
            /\ IF r = "copied"
               THEN /\ prov' = [p EXCEPT !.todo = p.todo \ {m},
                                         !.copied = p.copied \cup {m}]
                    /\ UNCHANGED <<pc, raised, exitCode>>
               ELSE ExtractionFails(p)
    /\ UNCHANGED runVars

\* after the loop: ModelError if models_copied is empty, else the
\* temporary files are removed and main exits with 0
FinishInstall ==
    /\ pc = "dl_models"
    /\ prov.todo = {}
    /\ IF prov.copied = {}
       THEN ExtractionFails(prov)
       ELSE /\ \E gone \in BOOLEAN :
                 prov' = [prov EXCEPT !.temp = ~gone, !.zip = FALSE]
            /\ Return
    /\ UNCHANGED install
    /\ UNCHANGED runVars

ProvisionNext ==
    \/ Fetch
    \/ Extract
    \/ InstallExe
    \/ InstallModel
    \/ FinishInstall

SpecProvision == ProvisionInit /\ [][ProvisionNext]_vars

----------------------------------------------------------------------------
(* A ProgressTracker on its own: constructed, then update() and finish()   *)
(* in any order                                                            *)

\* the item names handed to update
TrackerItems == {"", "p1.png", Label(LongPage, "failed")}

TrackerInit ==
    /\ cfg = [subdir |-> FALSE, nested |-> FALSE, zip_output |-> FALSE,
              zip_nested |-> FALSE]
    /\ tree = MissingTree
    /\ install = [bin |-> TRUE, models |-> "ok"]
    /\ out0 = [root |-> "absent", files |-> {}, dirs |-> NoDirs,
               zips |-> NoDirs]
    /\ earlier = <<>>
    /\ faults = FALSE
    /\ prov = NoProv
    /\ out = out0
    /\ sibling = "absent"
    /\ pc = "t_new"
    /\ mode = "none"
    /\ raised = "none"
    /\ exitCode = -1
    /\ \E n \in 0..MaxTotal :
         /\ progress = NewTracker(n)
         /\ term = Display(NewTracker(n), EmptyTerm, "")
    /\ zprogress = NoTracker
    /\ chapters = <<>>
    /\ curDir = ""
    /\ images = <<>>
    /\ invoked = <<>>
    /\ zipQueue = <<>>
    /\ zjob = NoJob
    /\ zipCalls = <<>>
    /\ zippedCount = 0

TrackerPcs == {"t_new", "t_updated", "t_finished"}

\* tracker.update(item)
TrackerUpdate ==
    /\ pc \in TrackerPcs
    /\ progress.current <= MaxTotal
    /\ \E item \in TrackerItems :
         /\ progress' = Update(progress)
         /\ term' = UpdateTerm(progress, term, item)
    /\ pc' = "t_updated"
    /\ UNCHANGED <<cfg, tree, install, out0, earlier, prov, faults, out,
                   sibling, mode, raised, exitCode, zprogress, chapters,
                   curDir, images, invoked, zipQueue, zjob, zipCalls,
                   zippedCount>>

\* tracker.finish()
TrackerFinish ==
    /\ pc \in TrackerPcs
    /\ term.newlines < MaxNewlines
    /\ progress' = Finish(progress)
    /\ term' = FinishTerm(progress, term)
    /\ pc' = "t_finished"
    /\ UNCHANGED <<cfg, tree, install, out0, earlier, prov, faults, out,
                   sibling, mode, raised, exitCode, zprogress, chapters,
                   curDir, images, invoked, zipQueue, zjob, zipCalls,
                   zippedCount>>

TrackerNext == TrackerUpdate \/ TrackerFinish

SpecTracker == TrackerInit /\ [][TrackerNext]_vars

----------------------------------------------------------------------------
(* What the claims speak about *)

Done == pc = "done"

FailureOutcomes == Outcomes \ {"ok"}

\* check_waifu2x_installed has something to object to
DepsMissing == ~install.bin \/ install.models \in {"missing", "empty"}

RECURSIVE ChapterRuns(_, _)
ChapterRuns(t, cs) ==
    IF cs = <<>> THEN <<>>
    ELSE LET c == Head(cs)
             fs == Sorted({f \in t.chapters[c] : IsImage(f)})
         IN [i \in 1..Len(fs) |-> <<c, fs[i]>>] \o ChapterRuns(t, Tail(cs))

\* the invocations a run of the input tree owes: every recognized image of
\* the batch, chapter after chapter
OwedInvocations ==
    IF mode = "nested" THEN ChapterRuns(tree, Sorted(DOMAIN tree.chapters))
    ELSE IF tree.kind = "file"
    THEN [i \in 1..1 |-> <<"", CHOOSE f \in tree.root : TRUE>>]
    ELSE LET fs == Sorted({f \in tree.root : IsImage(f)})
         IN [i \in 1..Len(fs) |-> <<"", fs[i]>>]

MadeInvocations == [i \in 1..Len(invoked) |-> <<invoked[i].dir, invoked[i].name>>]

\* the line the batch's tracker drew for the i-th invocation carries the
\* reason tag of outcome o: the tracker's first line is drawn by its
\* constructor, the archiver's lines come after the batch
ShowsTag(i, o) ==
    /\ progress.total # 0
    /\ Len(term.drawn) >= i + 1
    /\ HasSuffix(term.drawn[i + 1].label, Tag(o))

\* C1 (continuation part): a run that ends normally has invoked the tool
\* for every image of the batch and of every chapter, whatever the
\* outcomes of the earlier invocations were.
C1_AllInvoked == (Done /\ exitCode = 0) => MadeInvocations = OwedInvocations

\* C1: Partial failure: an invocation that ends as a non-zero exit, a
\* timeout or a launch error does not stop the batch (every later image of
\* the batch and of the later chapters is still invoked), and the failure is
\* recorded for exactly that image with the matching reason tag.
C1_PartialFailure ==
    /\ C1_AllInvoked
    /\ \A i \in 1..Len(invoked) : \A o \in FailureOutcomes :
          (invoked[i].outcome = o) <=> ShowsTag(i, o)

\* C2 as claimed: whenever the binary or the model data is missing, the run
\* ends with the missing-dependency error and exit code 1, with no
\* invocation, no output directory and no archive.
C2_PreflightAsClaimed ==
    DepsMissing =>
       /\ invoked = <<>> /\ out = out0 /\ sibling = "absent" /\ zipCalls = <<>>
       /\ Done => (raised = "ModelError" /\ exitCode = 1)

\* C2: when the binary or the model data is missing, no invocation is made,
\* no output directory is created and no archive is written, and the run
\* exits with code 1: with the missing-dependency error if the input root
\* exists, with the input-not-found error if it does not.
C2_PreflightFailFast ==
    DepsMissing =>
       /\ invoked = <<>> /\ out = out0 /\ sibling = "absent" /\ zipCalls = <<>>
       /\ pc \in {"check_input", "verify", "done"}
       /\ Done => /\ exitCode = 1
                  /\ raised = IF tree.kind = "missing"
                              THEN "FileNotFoundError" ELSE "ModelError"

\* a run with images to process stopped at the pre-flight check
C2_Witness ==
    /\ DepsMissing /\ Done /\ raised = "ModelError"
    /\ tree.kind = "dir" /\ Glob(tree.root) # {}

ZipPcs == {"zip_begin", "zip_write", "zip_cleanup", "zip_ret"}

\* C3 as claimed: with cleanup set, zip_directory returns with the source
\* directory removed if and only if the archive was fully written.
C3_RemovedIffWritten ==
    (pc = "zip_ret" /\ zjob.cleanup) =>
       (~SrcExists(out, zjob.src) <=> zjob.written)

\* C3: with cleanup set, the source directory is gone only if the archive
\* was fully written (at no point of the call is the source gone while the
\* archive is absent or incomplete); after a full write the source is
\* removed unless the removal itself fails, which is warned about and
\* leaves the call successful.
C3_ArchiveThenDelete ==
    /\ (pc \in ZipPcs /\ ~SrcExists(out, zjob.src)) =>
          (zjob.written /\ Archive(out, sibling, zjob.src) = "complete")
    /\ (pc = "zip_ret" /\ zjob.cleanup) =>
          /\ ~SrcExists(out, zjob.src) <=> (zjob.written /\ ~zjob.warned)
          /\ zjob.written => zjob.ret = TRUE
          /\ zjob.warned => zjob.written

\* the archive was written and the source directory removed
C3_Witness ==
    /\ pc = "zip_ret" /\ zjob.cleanup /\ zjob.written
    /\ ~SrcExists(out, zjob.src)
    /\ Archive(out, sibling, zjob.src) = "complete"

\* C4: zip_directory on a directory without files returns False, creates no
\* archive and leaves the directory as it was, cleanup or not.
C4_EmptyArchive ==
    (pc = "zip_ret" /\ zjob.found = 0) =>
       /\ zjob.ret = FALSE
       /\ Archive(out, sibling, zjob.src) = "absent"
       /\ SrcExists(out, zjob.src)
       /\ FilesUnder(out, zjob.src) = <<>>

\* zip_directory returned for an empty chapter directory, cleanup set
C4_Witness ==
    /\ pc = "zip_ret" /\ zjob.found = 0 /\ zjob.cleanup
    /\ zjob.src # "" /\ zjob.ret = FALSE


\* a nested run of an input root with at least one subdirectory
NestedRun == cfg.nested /\ tree.kind = "dir" /\ DOMAIN tree.chapters # {}

\* the recognized images of the immediate subdirectories, as (chapter, name)
ChapterImages ==
    {p \in UNION {{<<c, f>> : f \in tree.chapters[c]} : c \in DOMAIN tree.chapters} :
        \E e \in {".png", ".jpg", ".jpeg", ".webp"} : HasSuffix(p[2], e)}

C6_FlatFallback ==
    (tree.kind = "dir" /\ DOMAIN tree.chapters = {} /\ Done /\ exitCode = 0) =>
       /\ Len(invoked) = Cardinality({f \in tree.root : IsImage(f)})
       /\ \A f \in tree.root : IsImage(f) =>
             Cardinality({i \in 1..Len(invoked) :
                            invoked[i].name = f /\ invoked[i].dir = ""}) = 1

\* a nested run fell back to the flat batch and invoked both images
C6_Witness ==
    /\ cfg.nested /\ mode = "fallback" /\ Done /\ exitCode = 0
    /\ Len(invoked) = 2 /\ tree.root \ Glob(tree.root) # {}

\* C7: Chaptered run with per-chapter archiving: at the end of a nested run
\* with zip-chapters every chapter with a recognized image is <chapter>.zip
\* with its output directory removed, and every chapter without one has no
\* output directory and no archive.
C7_ChapterArchives ==
    (Done /\ exitCode = 0 /\ NestedRun /\ cfg.zip_nested) =>
       \A c \in DOMAIN tree.chapters :
          IF Glob(tree.chapters[c]) # {}
          THEN Archive(out, sibling, c) = "complete" /\ ~SrcExists(out, c)
          ELSE Archive(out, sibling, c) = "absent" /\ ~SrcExists(out, c)

\* C8: Per-chapter archiving scope: in a nested run with zip-chapters
\* zip_directory is called once for each chapter and for no other
\* directory, so a directory that was under the output root before the run
\* and is no chapter is neither archived nor deleted.
C8_ArchiveScope ==
    (NestedRun /\ cfg.zip_nested) =>
       /\ \A i \in 1..Len(zipCalls) : zipCalls[i] \in DOMAIN tree.chapters
       /\ (Done /\ exitCode = 0) =>
             \A c \in DOMAIN tree.chapters :
                Cardinality({i \in 1..Len(zipCalls) : zipCalls[i] = c}) = 1
       /\ \A d \in DOMAIN out0.dirs \ DOMAIN tree.chapters :
             /\ SrcExists(out, d)
             /\ out.dirs[d] = out0.dirs[d]
             /\ Archive(out, sibling, d) = "absent"

\* C9: Overall outcome: a run ends with exit code 1 only through one of
\* main's handlers and only for a structural reason (the input root is
\* missing, a dependency is missing, or an exception nobody expected: the
\* output root is a regular file, or a nested scan of an input that is a
\* file), always before the first invocation; otherwise it ends with exit
\* code 0 whatever the invocations' outcomes were.
C9_OverallOutcome ==
    Done =>
       /\ exitCode \in {0, 1}
       /\ exitCode = 1 <=> raised # "none"
       /\ exitCode = 1 => invoked = <<>>
       /\ raised = "FileNotFoundError" => tree.kind = "missing"
       /\ raised = "ModelError" => DepsMissing
       /\ raised = "Exception" =>
             (out0.root = "file" \/ (cfg.nested /\ tree.kind = "file"))
       /\ raised \in {"none", "FileNotFoundError", "ModelError", "Exception"}
       /\ (/\ tree.kind # "missing" /\ ~DepsMissing /\ out0.root # "file"
           /\ ~(cfg.nested /\ tree.kind = "file")) => exitCode = 0

\* a run in which every invocation failed, each in its own way, ended with
\* exit code 0
C9_Witness ==
    /\ Done /\ exitCode = 0 /\ Len(invoked) >= 2
    /\ \A i \in 1..Len(invoked) : invoked[i].outcome # "ok"
    /\ \E i \in 1..Len(invoked) : invoked[i].outcome = "error"
    /\ \E i \in 1..Len(invoked) : invoked[i].outcome = "timeout"

\* C10: Idempotent finish: finish() on a tracker with completed < total sets
\* completed to total and draws the bar once, at total/total; finish() on a
\* tracker with completed = total, a second finish() among them, changes
\* neither the tracker nor the bars drawn.
C10_FinishIdempotent ==
    [][pc' = "t_finished" =>
         /\ progress.current < progress.total =>
               /\ progress' = [total |-> progress.total,
                               current |-> progress.total]
               /\ Len(term'.drawn) = Len(term.drawn) + 1
               /\ SubSeq(term'.drawn, 1, Len(term.drawn)) = term.drawn
               /\ term'.drawn[Len(term'.drawn)].current = progress.total
               /\ term'.drawn[Len(term'.drawn)].filled = BarLength
         /\ (progress.current = progress.total \/ pc = "t_finished") =>
               /\ progress' = progress
               /\ term'.drawn = term.drawn]_vars

\* finish() forced a tracker to its total, and was then called again
C10_Witness ==
    /\ pc = "t_finished" /\ progress.total >= 2
    /\ progress.current = progress.total
    /\ Len(term.drawn) <= progress.total
    /\ term.newlines >= 3

\* the positions of a run between the making of the batch's tracker and its
\* finish()
ProcessingPcs == {"chapters", "run_enter", "run_loop", "finish"}

\* the batch's finish() has been called
AfterFinish == pc \in ZipPcs \cup {"zip_scan"} \/ (Done /\ exitCode = 0)

\* C11 (counting part): from the making of the tracker to finish() the
\* counter is the number of invocations that have returned, whatever their
\* outcomes: it advances by one with each invocation and with nothing else.
C11_CounterTracksInvocations ==
    (pc \in ProcessingPcs /\ progress # NoTracker) =>
       progress.current = Len(invoked)

\* C11: Progress accounting: the counter advances by exactly one after each
\* invocation returns, for every outcome, and never otherwise during
\* processing; after the batch's finish() the counter equals the total even
\* when some images failed.
C11_ProgressAccounting ==
    /\ C11_CounterTracksInvocations
    /\ AfterFinish => progress.current = progress.total

\* invocation b is for a later place of the input tree than invocation a:
\* a later chapter, or a later image of the same chapter
Later(a, b) ==
    \/ StrLess(a.dir, b.dir)
    \/ a.dir = b.dir /\ StrLess(a.name, b.name)

\* C12 (one at a time): a step of a run makes at most one invocation, after
\* all the earlier ones have returned.
C12_OneAtATime ==
    [][/\ Len(invoked') <= Len(invoked) + 1
       /\ SubSeq(invoked', 1, Len(invoked)) = invoked]_vars

\* C12: Deterministic order: whenever run_waifu2x is in its loop, the
\* invocation it made last is for a later chapter in sorted-name order than
\* the one before it, or for a later image of the same chapter in
\* sorted-name order; and when the batch is over, the invocations made are
\* exactly the sequence the input tree fixes: chapter after chapter in
\* sorted-name order, image after image in sorted-name order.
C12_DeterministicOrder ==
    /\ (pc = "run_loop" /\ Len(invoked) >= 2) =>
          Later(invoked[Len(invoked) - 1], invoked[Len(invoked)])
    /\ pc = "finish" => MadeInvocations = OwedInvocations

\* a nested run went through two chapters, two images in the first and one
\* in the second
C12_Witness ==
    /\ Done /\ exitCode = 0 /\ mode = "nested" /\ Len(invoked) = 3
    /\ invoked[1].dir = invoked[2].dir /\ invoked[2].dir # invoked[3].dir

\* the relative paths of the files of the output: those of the output root
\* (its own files, the files of its directories, the chapter archives) and
\* the archive beside it
FilePaths(o, sib) ==
    o.files
      \cup UNION {{d \o "/" \o f : f \in o.dirs[d]} : d \in DOMAIN o.dirs}
      \cup {d \o ".zip" : d \in DOMAIN o.zips}
      \cup (IF sib = "absent" THEN {} ELSE {"../output.zip"})

\* the command was run twice, both runs ended normally, and in neither did
\* the tool, an archive write or a directory removal fail
RanTwice ==
    /\ Len(earlier) = 1 /\ Done /\ exitCode = 0 /\ CleanRun
    /\ earlier[1].exitCode = 0 /\ earlier[1].clean

\* C13: Run idempotence: for every input tree and every configuration
\* (nested, zip, zip-chapters, the output root inside the input root
\* included) the second run of the same command leaves the files of the
\* output at the same relative paths as the first.
C13_RunIdempotence ==
    RanTwice =>
       FilePaths(out, sibling) = FilePaths(earlier[1].out, earlier[1].sibling)

\* C13 (output root outside the input root): there the second run leaves
\* the same files, and the same directories, as the first.
C13_OutsideIdempotence ==
    (RanTwice /\ ~cfg.subdir) =>
       /\ FilePaths(out, sibling)
            = FilePaths(earlier[1].out, earlier[1].sibling)
       /\ DOMAIN out.dirs = DOMAIN earlier[1].out.dirs
       /\ out.root = earlier[1].out.root

\* the install action ended in ModelError
InstallFailed == Done /\ raised = "ModelError" /\ exitCode = 1

\* the executable and the model data a run needs are on disk, whole
CompleteInstall ==
    /\ install.bin /\ prov.binWhole
    /\ install.models = "ok" /\ prov.cunetWhole

\* C14 (downloaded archive): however the install action fails, the
\* downloaded archive is removed.
C14_ArchiveRemoved == InstallFailed => ~prov.zip

\* C14: Provisioning failure: whenever the install action fails, the
\* downloaded archive and the temporary extraction directory are removed,
\* and what is on disk does not pass the pre-flight installed check unless
\* it is a complete install.
C14_ProvisioningFailure ==
    InstallFailed =>
       /\ ~prov.zip /\ ~prov.temp
       /\ CheckInstalled(install) => CompleteInstall

\* C14 (temporary directory removed): as C14, for the failures after which
\* the removal of the temporary directory went through.
C14_LooksInstalled ==
    (InstallFailed /\ ~prov.temp) =>
       (CheckInstalled(install) => CompleteInstall)

\* the names of the images the tool wrote an output for
OutputFiles ==
    {invoked[i].name : i \in {j \in 1..Len(invoked) : invoked[j].outcome = "ok"}}

\* the output root holds a file when the batch is over
HasContent ==
    \/ OutputFiles # {}
    \/ out0.files # {}
    \/ \E d \in DOMAIN out0.dirs : out0.dirs[d] # {}

\* a run over a directory without subdirectories has ended normally
NoSubdirRunDone ==
    /\ Done /\ exitCode = 0
    /\ tree.kind = "dir" /\ DOMAIN tree.chapters = {}

\* what the flat run leaves: one invocation per image of the root in
\* sorted order; without zip the outputs in the output root; with zip, if
\* there is a file to archive and nothing fails, the archive beside the
\* output root and the output root removed
FlatResult ==
    /\ MadeInvocations = OwedInvocations
    /\ IF ~cfg.zip_output
       THEN /\ sibling = "absent" /\ out.root = "dir"
            /\ out.files = out0.files \cup OutputFiles
            /\ out.dirs = out0.dirs
       ELSE IF ~HasContent
       THEN sibling = "absent" /\ out.root = "dir" /\ out.files = {}
       ELSE faults \/ (sibling = "complete" /\ out.root = "absent")

\* C15 (the flat run): a run without nested ends as FlatResult says.
C15_FlatRun == (NoSubdirRunDone /\ ~cfg.nested) => FlatResult

\* C15 (without zip): a nested run over a root without subdirectories and
\* without zip ends as the flat run does.
C15_FallbackWithoutZip ==
    (NoSubdirRunDone /\ cfg.nested /\ ~cfg.zip_output) => FlatResult

\* C15: Fallback equivalence: with nested set and no subdirectory under the
\* input root the run ends as the flat run with the same configuration:
\* the same invocations in the same order, the same output files and, when
\* zip is requested, the same archive of the output root.
C15_FallbackEquivalence == (NoSubdirRunDone /\ cfg.nested) => FlatResult

\* the batch's counter is within its bounds
CounterInBounds == 0 <= progress.current /\ progress.current <= progress.total

\* C16 (directory input): for an input root that is a directory the
\* counter is between 0 and the total in every state.
C16_DirectoryBound ==
    (tree.kind = "dir" /\ progress # NoTracker) => CounterInBounds

\* C16 (monotonicity): the counter never decreases, whatever the input.
C16_Monotone ==
    [][progress # NoTracker => progress'.current >= progress.current]_vars

\* C16: Counter bound: in every state of every run whose input root exists,
\* a directory or a single image file, 0 <= completed <= total, and
\* completed never decreases.
C16_CounterBound ==
    /\ []((tree.kind \in {"dir", "file"} /\ progress # NoTracker) =>
            CounterInBounds)
    /\ C16_Monotone

\* the invocations made so far, as (chapter, name)
InvokedSet == {MadeInvocations[i] : i \in 1..Len(invoked)}

====
